---------------------------- MODULE Spec2Model ----------------------------
(***************************************************************************)
(* Model of src/lib.rs of easy-cam: the pan/orbit/zoom camera controller   *)
(* (pan_orbit_camera), the focus recentre (center_selection), the settings *)
(* panel (ui_system) and the gizmo alignment (update_gizmo_space).         *)
(*                                                                         *)
(* Numbers.  f32 values are fixed-point integers:                          *)
(*   lengths (focus, radius, translation)  in units of 0.05,               *)
(*   mouse motion and scroll                in whole pixels / wheel units, *)
(*   the pan vector                         in units of 1/8 pixel,         *)
(*   angles                                 in quarter turns (pi/2).       *)
(* A Quat is modelled by the rotation it denotes, a 3x3 integer matrix     *)
(* given by its three columns; the inputs are chosen so that every         *)
(* rotation the code builds is a multiple of a quarter turn, which keeps   *)
(* the 24 rotations of the cube closed under the code's products.          *)
(***************************************************************************)
EXTENDS Integers, Sequences, FiniteSets

VARIABLES
    rigs,      \* the entities with (PanOrbitCamera, Transform, Projection), in query order
    input,     \* this frame's Input<MouseButton>, Input<KeyCode>, events, primary window
    frame,     \* "idle" between frames, "update" while the frame's systems run
    pending,   \* the systems still to run in this frame
    applied,   \* per rig, the branches of lines 229-267 taken in this frame
    selection, \* the entities with (Transform, GlobalTransform, Selection), in query order
    app_assets,      \* Res<CameraData>
    enabled_systems, \* Res<GizmoPartsEnabled>
    gizmo,     \* Res<GizmoSettings>
    ui,        \* the egui window of ui_system: collapsed or not, and this frame's click
    panicked   \* a system has panicked: the app is gone

vars == <<rigs, input, frame, pending, applied, selection, app_assets, enabled_systems,
          gizmo, ui, panicked>>

-----------------------------------------------------------------------------
(* Bounds of the model *)

MaxRigs == 2       \* camera rigs
MaxEvents == 2     \* motion and scroll events of one frame
MaxObjects == 2    \* selectable objects
MaxRadius == 200   \* a frame that would zoom out beyond it is not taken

-----------------------------------------------------------------------------
(* Vec3, Mat3 *)

Vec3(x, y, z) == <<x, y, z>>
ZERO == Vec3(0, 0, 0)
X == Vec3(1, 0, 0)
Y == Vec3(0, 1, 0)
Z == Vec3(0, 0, 1)

VAdd(a, b) == <<a[1] + b[1], a[2] + b[2], a[3] + b[3]>>
VSub(a, b) == <<a[1] - b[1], a[2] - b[2], a[3] - b[3]>>
VScale(a, k) == <<a[1] * k, a[2] * k, a[3] * k>>
VNeg(a) == VScale(a, -1)
Cross(a, b) ==
    <<a[2] * b[3] - a[3] * b[2], a[3] * b[1] - a[1] * b[3], a[1] * b[2] - a[2] * b[1]>>
LengthSquared(a) == a[1] * a[1] + a[2] * a[2] + a[3] * a[3]

\* Rounded division of a fixed-point value: toward zero, as f32 rounding is symmetric.
Quot(a, b) == IF a >= 0 THEN a \div b ELSE -((-a) \div b)
VQuot(a, k) == <<Quot(a[1], k), Quot(a[2], k), Quot(a[3], k)>>

\* A matrix is the tuple of its columns.
IDENTITY == <<X, Y, Z>>
MulVec(m, v) == VAdd(VAdd(VScale(m[1], v[1]), VScale(m[2], v[2])), VScale(m[3], v[3]))
MatMul(a, b) == <<MulVec(a, b[1]), MulVec(a, b[2]), MulVec(a, b[3])>>

\* cos and sin of n quarter turns
Cos4(n) == LET k == n % 4 IN IF k = 0 THEN 1 ELSE IF k = 2 THEN -1 ELSE 0
Sin4(n) == LET k == n % 4 IN IF k = 1 THEN 1 ELSE IF k = 3 THEN -1 ELSE 0

from_rotation_y(n) == <<Vec3(Cos4(n), 0, -Sin4(n)), Y, Vec3(Sin4(n), 0, Cos4(n))>>
from_rotation_x(n) == <<X, Vec3(0, Cos4(n), Sin4(n)), Vec3(0, -Sin4(n), Cos4(n))>>

\* The rotations the model's orbits reach from the identity.
Yaws == {from_rotation_y(n) : n \in 0..3}
Pitches == {from_rotation_x(n) : n \in 0..3}

-----------------------------------------------------------------------------
(* The frame's input *)

\* The primary window's size and the perspective projection's parameters, chosen
\* so that the motions below turn the camera by whole quarter turns.
Window == [width |-> 8, height |-> 4]
Perspective == [kind |-> "Perspective", fov |-> 2, aspect_ratio |-> 2]
Orthographic == [kind |-> "Orthographic"]
Projections == {Perspective, Orthographic}

\* fixed-point scale of the pan vector
PanUnit == 2 * 2 * 2

RECURSIVE SumVec2(_)
SumVec2(evs) ==
    IF evs = <<>> THEN <<0, 0>>
    ELSE LET r == SumVec2(Tail(evs)) IN <<Head(evs)[1] + r[1], Head(evs)[2] + r[2]>>

RECURSIVE SumY(_)
SumY(evs) == IF evs = <<>> THEN 0 ELSE Head(evs) + SumY(Tail(evs))

SeqsUpTo(S, n) == UNION {[1..k -> S] : k \in 0..n}

\* Input<MouseButton> for MouseButton::Middle as Bevy keeps it: a frame without a
\* press or release event keeps `pressed`; a press sets just_pressed, a release
\* just_released, and both may happen in one frame.
ButtonStates(was_pressed) ==
    {b \in [pressed : BOOLEAN, just_pressed : BOOLEAN, just_released : BOOLEAN] :
        /\ (~b.just_pressed /\ ~b.just_released) => b.pressed = was_pressed
        /\ (b.just_pressed /\ ~b.just_released) => (b.pressed /\ ~was_pressed)
        /\ (~b.just_pressed /\ b.just_released) => (~b.pressed /\ was_pressed)
        /\ (b.just_pressed /\ b.just_released) => b.pressed = was_pressed}

\* The event queues of one frame: at most MaxEvents events in all.
Events(motions, scrolls) ==
    {e \in SeqsUpTo(motions, MaxEvents) \X SeqsUpTo(scrolls, MaxEvents) :
        Len(e[1]) + Len(e[2]) <= MaxEvents}

\* The frames of a specification: is the primary window found, the button, the pan
\* keys held, the events, and whether KeyCode::Period was just released.
Frames(was_pressed, windows, keys, events, periods) ==
    {[window |-> w, mouse |-> b, lshift |-> l, rshift |-> r,
      ev_motion |-> e[1], ev_scroll |-> e[2], period_released |-> p] :
        w \in windows, b \in ButtonStates(was_pressed), l \in keys, r \in keys,
        e \in events, p \in periods}

\* Between frames: Bevy clears the events and the just_* sets, the button stays.
Cleared(inp) ==
    [window |-> TRUE,
     mouse |-> [pressed |-> inp.mouse.pressed, just_pressed |-> FALSE, just_released |-> FALSE],
     lshift |-> FALSE, rshift |-> FALSE, ev_motion |-> <<>>, ev_scroll |-> <<>>,
     period_released |-> FALSE]

-----------------------------------------------------------------------------
(* pan_orbit_camera *)

\* lengths are in units of 0.05: f32::max(radius, 0.05), radius 5.0, 0.002 = 2/1000
MinRadius == 1
DefaultRadius == 100
ZoomPerMille == 2

Abs(x) == IF x >= 0 THEN x ELSE -x
Max(a, b) == IF a >= b THEN a ELSE b
LengthSquared2(v) == v[1] * v[1] + v[2] * v[2]

DefaultRig(projection) ==
    [focus |-> ZERO, radius |-> DefaultRadius, upside_down |-> FALSE,
     rotation |-> IDENTITY, translation |-> Vec3(0, 0, DefaultRadius),
     projection |-> projection, pick_source |-> FALSE]

\* lines 199-204: the motion is summed into rotation_move when the orbit button is
\* held and no pan key is
OrbitHeld(inp) == inp.mouse.pressed /\ ~(inp.rshift \/ inp.lshift)
\* (mutant of RotationMove: the distance the pointer travelled, not its displacement)
RotationMoveTravelled(inp) ==
    IF OrbitHeld(inp)
    THEN <<SumY([k \in 1..Len(inp.ev_motion) |-> Abs(inp.ev_motion[k][1])]),
           SumY([k \in 1..Len(inp.ev_motion) |-> Abs(inp.ev_motion[k][2])])>>
    ELSE <<0, 0>>
RotationMove(inp) == IF OrbitHeld(inp) THEN SumVec2(inp.ev_motion) ELSE <<0, 0>>

\* lines 205-212: else into pan when the pan button and a pan key are held
PanHeld(inp) == ~OrbitHeld(inp) /\ inp.mouse.pressed /\ (inp.rshift \/ inp.lshift)
PanMove(inp) ==
    IF PanHeld(inp)
    THEN LET d == SumVec2(inp.ev_motion) IN <<d[1] * PanUnit, d[2] * PanUnit>>
    ELSE <<0, 0>>

\* lines 213-215
Scroll(inp) == SumY(inp.ev_scroll)

\* lines 216-218
OrbitButtonChanged(inp) == inp.mouse.just_released \/ inp.mouse.just_pressed

\* (mutant of UpsideDown: the flag recomputed in every frame)
UpsideDownEveryFrame(rig, changed) ==
    [rig EXCEPT !.upside_down = (MulVec(rig.rotation, Y)[2] <= 0)]

\* lines 221-226
UpsideDown(rig, changed) ==
    IF changed
    THEN [rig EXCEPT !.upside_down = (MulVec(rig.rotation, Y)[2] <= 0)]
    ELSE rig

\* (mutant of Branch: the zoom is an `if` of its own, not an `else if`)
BranchZoomAlso(rotation_move, pan, scroll) ==
    (IF LengthSquared2(rotation_move) > 0 THEN {"orbit"}
     ELSE IF LengthSquared2(pan) > 0 THEN {"pan"}
     ELSE {})
    \cup (IF Abs(scroll) > 0 THEN {"zoom"} ELSE {})

\* lines 229, 246, 262: which of the three branches a rig takes
Branch(rotation_move, pan, scroll) ==
    IF LengthSquared2(rotation_move) > 0 THEN {"orbit"}
    ELSE IF LengthSquared2(pan) > 0 THEN {"pan"}
    ELSE IF Abs(scroll) > 0 THEN {"zoom"}
    ELSE {}

\* lines 231-244, in quarter turns: 2 pi is 4, pi is 2
Orbit(rig, rotation_move) ==
    LET delta == Quot(rotation_move[1] * 4, Window.width)
        delta_x == IF rig.upside_down THEN -delta ELSE delta
        delta_y == Quot(rotation_move[2] * 2, Window.height)
        yaw == from_rotation_y(-delta_x)
        pitch == from_rotation_x(-delta_y)
    IN [rig EXCEPT !.rotation = MatMul(MatMul(yaw, rig.rotation), pitch)]

\* lines 253-255: `pan` is the function's variable, scaled in place
ScalePan(pan, projection) ==
    IF projection.kind = "Perspective"
    THEN <<Quot(pan[1] * projection.fov * projection.aspect_ratio, Window.width),
           Quot(pan[2] * projection.fov, Window.height)>>
    ELSE pan

\* (mutant of Pan: the translation applied to the camera and the radius taken from
\* the new distance, instead of the focus moved)
PanCamera(rig, pan) ==
    LET right == VScale(MulVec(rig.rotation, X), -pan[1])
        up == VScale(MulVec(rig.rotation, Y), pan[2])
        translation == VQuot(VScale(VAdd(right, up), rig.radius), PanUnit)
    IN [rig EXCEPT !.radius = rig.radius + Abs(translation[1]) + Abs(translation[2])
                                  + Abs(translation[3])]

\* lines 257-261
Pan(rig, pan) ==
    LET right == VScale(MulVec(rig.rotation, X), -pan[1])
        up == VScale(MulVec(rig.rotation, Y), pan[2])
        translation == VQuot(VScale(VAdd(right, up), rig.radius), PanUnit)
    IN [rig EXCEPT !.focus = VAdd(rig.focus, translation)]

\* (mutant of Zoom: the f32::max of line 266 left out)
ZoomUnclamped(rig, scroll) ==
    [rig EXCEPT !.radius = rig.radius - Quot(scroll * rig.radius * ZoomPerMille, 1000)]

\* lines 264-266
Zoom(rig, scroll) ==
    LET radius == rig.radius - Quot(scroll * rig.radius * ZoomPerMille, 1000)
    IN [rig EXCEPT !.radius = Max(radius, MinRadius)]

\* (mutant of Rederive: the assignment of lines 274-275 left out)
RederiveKept(rig) == rig

\* lines 269-276
Rederive(rig) ==
    [rig EXCEPT !.translation =
        VAdd(rig.focus, MulVec(rig.rotation, Vec3(0, 0, rig.radius)))]

\* lines 220-277: the loop over the query; `pan` is carried from one rig to the next
RECURSIVE RigLoop(_, _, _, _, _, _)
RigLoop(rs, i, rotation_move, pan, scroll, changed) ==
    IF i > Len(rs) THEN [rigs |-> rs, applied |-> <<>>]
    ELSE
        LET b == Branch(rotation_move, pan, scroll)
            r0 == UpsideDown(rs[i], changed)
            r1 == IF "orbit" \in b THEN Orbit(r0, rotation_move) ELSE r0
            pan1 == IF "pan" \in b THEN ScalePan(pan, r0.projection) ELSE pan
            r2 == IF "pan" \in b THEN Pan(r1, pan1) ELSE r1
            r3 == IF "zoom" \in b THEN Zoom(r2, scroll) ELSE r2
            r4 == IF b # {} THEN Rederive(r3) ELSE r3
            rest == RigLoop([rs EXCEPT ![i] = r4], i + 1, rotation_move, pan1, scroll, changed)
        IN [rigs |-> rest.rigs, applied |-> <<b>> \o rest.applied]

NoneApplied(rs) == [i \in 1..Len(rs) |-> {}]

\* (mutant of PanOrbitCameraResult: the early return of line 184 left out)
PanOrbitCameraWindowless(rs, inp) ==
    RigLoop(rs, 1, RotationMove(inp), PanMove(inp), Scroll(inp), OrbitButtonChanged(inp))

\* lines 169-278
PanOrbitCameraResult(rs, inp) ==
    IF ~inp.window THEN [rigs |-> rs, applied |-> NoneApplied(rs)]
    ELSE RigLoop(rs, 1, RotationMove(inp), PanMove(inp), Scroll(inp), OrbitButtonChanged(inp))

WithinBounds(rs) == \A i \in 1..Len(rs) : rs[i].radius <= MaxRadius

-----------------------------------------------------------------------------
(* The frame: CameraPlugin::build chains pan_orbit_camera before center_selection *)
(* and ui_system before update_gizmo_space                                        *)

\* (mutant of Before: the second add_systems without its .chain())
BeforeFirstChainOnly(system) ==
    IF system = "center_selection" THEN {"pan_orbit_camera"} ELSE {}

Before(system) ==
    IF system = "center_selection" THEN {"pan_orbit_camera"}
    ELSE IF system = "update_gizmo_space" THEN {"ui_system"}
    ELSE {}

Ready(system) ==
    /\ ~panicked
    /\ frame = "update"
    /\ system \in pending
    /\ Before(system) \cap pending = {}

\* The host starts a frame: the input, the picking and the pointer over the panel
\* are those of the frame; `systems` are the systems of the specification.
BeginFrame(systems, frames, selections, clicks) ==
    /\ ~panicked
    /\ frame = "idle"
    /\ input' \in frames
    /\ selection' \in selections
    /\ \E c \in clicks : ui' = [ui EXCEPT !.click = c]
    /\ frame' = "update"
    /\ pending' = systems
    /\ applied' = NoneApplied(rigs)
    /\ UNCHANGED <<rigs, app_assets, enabled_systems, gizmo, panicked>>

pan_orbit_camera ==
    /\ Ready("pan_orbit_camera")
    /\ LET res == PanOrbitCameraResult(rigs, input) IN
        /\ WithinBounds(res.rigs)
        /\ rigs' = res.rigs
        /\ applied' = res.applied
    /\ pending' = pending \ {"pan_orbit_camera"}
    /\ UNCHANGED <<input, frame, selection, app_assets, enabled_systems, gizmo, ui, panicked>>

-----------------------------------------------------------------------------
(* center_selection *)

AnySelected(sel) == \E i \in 1..Len(sel) : sel[i].selected

\* (mutant of SumSelected: the test of line 86 left out)
RECURSIVE SumAll(_)
SumAll(sel) ==
    IF sel = <<>> THEN [total |-> ZERO, point_count |-> 0]
    ELSE LET r == SumAll(Tail(sel))
         IN [total |-> VAdd(Head(sel).translation, r.total),
             point_count |-> r.point_count + 1]

\* lines 83-90
RECURSIVE SumSelected(_)
SumSelected(sel) ==
    IF sel = <<>> THEN [total |-> ZERO, point_count |-> 0]
    ELSE LET r == SumSelected(Tail(sel))
         IN IF Head(sel).selected
            THEN [total |-> VAdd(Head(sel).translation, r.total),
                  point_count |-> r.point_count + 1]
            ELSE r

\* Vec3::length: the square root, rounded down to the unit
RECURSIVE SqrtSearch(_, _, _)
SqrtSearch(n, lo, hi) ==
    IF hi - lo <= 1 THEN lo
    ELSE LET mid == (lo + hi) \div 2
         IN IF mid * mid <= n THEN SqrtSearch(n, mid, hi) ELSE SqrtSearch(n, lo, mid)
Length(v) == SqrtSearch(LengthSquared(v), 0, LengthSquared(v) + 1)

\* (mutant of CenterSelectionResult: the test of line 82 left out)
CenterSelectionEveryFrame(rs, sel, inp) ==
    IF ~AnySelected(sel) THEN [rigs |-> rs, panicked |-> FALSE]
    ELSE
        LET sum == SumSelected(sel)
            center == VQuot(sum.total, sum.point_count)
        IN IF Len(rs) # 1 THEN [rigs |-> rs, panicked |-> TRUE]
           ELSE [rigs |-> <<[rs[1] EXCEPT
                               !.radius = Length(VSub(rs[1].translation, center)),
                               !.focus = center]>>,
                 panicked |-> FALSE]

\* lines 73-96; camera.single_mut() panics unless exactly one rig matches
CenterSelectionResult(rs, sel, inp) ==
    IF ~AnySelected(sel) THEN [rigs |-> rs, panicked |-> FALSE]
    ELSE IF ~inp.period_released THEN [rigs |-> rs, panicked |-> FALSE]
    ELSE
        LET sum == SumSelected(sel)
            center == VQuot(sum.total, sum.point_count)
        IN IF Len(rs) # 1 THEN [rigs |-> rs, panicked |-> TRUE]
           ELSE [rigs |-> <<[rs[1] EXCEPT
                               !.radius = Length(VSub(rs[1].translation, center)),
                               !.focus = center]>>,
                 panicked |-> FALSE]

center_selection ==
    /\ Ready("center_selection")
    /\ LET res == CenterSelectionResult(rigs, selection, input) IN
        /\ rigs' = res.rigs
        /\ panicked' = res.panicked
    /\ pending' = pending \ {"center_selection"}
    /\ UNCHANGED <<input, frame, applied, selection, app_assets, enabled_systems, gizmo, ui>>

-----------------------------------------------------------------------------
(* ui_system *)

GizmoSpaces == {"Global", "Local", "Screen"}
TransformOrScale == {"Transform", "Scale", "Neither"}
\* what the pointer can click in the panel's window in one frame
Clicks == {"None", "Collapse", "Rotate", "Planes"} \cup GizmoSpaces \cup TransformOrScale

\* (mutant of HandleFlags: Scale leaves the arrows as they were)
HandleFlagsScaleOnly(showing, flags) ==
    IF showing = "Transform" THEN [flags EXCEPT !.translate_arrows = TRUE, !.scale = FALSE]
    ELSE IF showing = "Scale" THEN [flags EXCEPT !.scale = TRUE]
    ELSE [flags EXCEPT !.translate_arrows = FALSE, !.scale = FALSE]

\* (mutant of HandleFlags: Neither hides the rotate and plane handles too)
HandleFlagsNeitherAll(showing, flags) ==
    IF showing = "Transform" THEN [flags EXCEPT !.translate_arrows = TRUE, !.scale = FALSE]
    ELSE IF showing = "Scale" THEN [flags EXCEPT !.translate_arrows = FALSE, !.scale = TRUE]
    ELSE [translate_arrows |-> FALSE, scale |-> FALSE, rotate |-> FALSE,
          translate_planes |-> FALSE]

\* lines 147-160
HandleFlags(showing, flags) ==
    IF showing = "Transform" THEN [flags EXCEPT !.translate_arrows = TRUE, !.scale = FALSE]
    ELSE IF showing = "Scale" THEN [flags EXCEPT !.translate_arrows = FALSE, !.scale = TRUE]
    ELSE [flags EXCEPT !.translate_arrows = FALSE, !.scale = FALSE]

\* lines 134-165. egui runs the closure of lines 136-163 only while the window is
\* not collapsed; a click changes the one widget it hits.
UiSystemResult(assets, flags, u) ==
    LET open == ~u.collapsed
        selected == IF open /\ u.click \in GizmoSpaces
                    THEN u.click ELSE assets.transform_orientation
        showing == IF open /\ u.click \in TransformOrScale
                   THEN u.click ELSE assets.ui_show_transform_or_scale
        f1 == IF open THEN HandleFlags(showing, flags) ELSE flags
        f2 == IF open /\ u.click = "Rotate" THEN [f1 EXCEPT !.rotate = ~f1.rotate] ELSE f1
        f3 == IF open /\ u.click = "Planes"
              THEN [f2 EXCEPT !.translate_planes = ~f2.translate_planes] ELSE f2
    IN [app_assets |-> [transform_orientation |-> selected,
                        ui_show_transform_or_scale |-> showing],
        enabled_systems |-> f3,
        ui |-> [collapsed |-> IF u.click = "Collapse" THEN ~u.collapsed ELSE u.collapsed,
                click |-> u.click, invoked |-> TRUE]]

ui_system ==
    /\ Ready("ui_system")
    /\ LET res == UiSystemResult(app_assets, enabled_systems, ui) IN
        /\ app_assets' = res.app_assets
        /\ enabled_systems' = res.enabled_systems
        /\ ui' = res.ui
    /\ pending' = pending \ {"ui_system"}
    /\ UNCHANGED <<rigs, input, frame, applied, selection, gizmo, panicked>>

-----------------------------------------------------------------------------
(* update_gizmo_space *)

\* lines 297-303
Selected(sel) == SelectSeq(sel, LAMBDA o : o.selected)

\* (mutant of Take1: the last selected object instead of the first)
TakeLast(seq) == IF seq = <<>> THEN <<>> ELSE <<seq[Len(seq)]>>

\* selected.take(1)
Take1(seq) == IF seq = <<>> THEN <<>> ELSE <<Head(seq)>>

\* lines 306-310; the objects carry no scale, so Quat::from_mat4 of the matrix is the
\* object's rotation
AlignLocal(g, selected) ==
    IF Take1(selected) # <<>>
    THEN [g EXCEPT !.alignment_rotation = Take1(selected)[1].rotation]
    ELSE g

\* (mutant of AlignGlobal: the assignment of line 313 left out)
AlignGlobalKept(g, selected) == g

\* lines 311-315
AlignGlobal(g, selected) ==
    IF Take1(selected) # <<>> THEN [g EXCEPT !.alignment_rotation = IDENTITY] ELSE g

\* lines 321-326
ScreenRotation(cam) ==
    LET direction == MulVec(cam.rotation, Z)
        local_y == MulVec(cam.rotation, Y)
    IN <<Cross(direction, local_y), direction, local_y>>

\* (mutant of AlignScreen: without its camera, the screen of an unrotated camera)
AlignScreenAnyway(g, selected, cams) ==
    LET rotation == IF Len(cams) = 1 THEN ScreenRotation(cams[1])
                    ELSE ScreenRotation([rotation |-> IDENTITY])
    IN IF Take1(selected) # <<>> THEN [g EXCEPT !.alignment_rotation = rotation] ELSE g

\* lines 316-329; camera.get_single() is Err unless exactly one camera matches
AlignScreen(g, selected, cams) ==
    IF Len(cams) # 1 THEN g
    ELSE IF Take1(selected) # <<>>
         THEN [g EXCEPT !.alignment_rotation = ScreenRotation(cams[1])]
         ELSE g

\* Query<&Transform, With<GizmoPickSource>>
PickSources(rs) == SelectSeq(rs, LAMBDA r : r.pick_source)

\* lines 290-337
UpdateGizmoSpaceResult(assets, sel, g, rs) ==
    LET gizmo_space == assets.transform_orientation
        selected == Selected(sel)
    IN IF gizmo_space = "Local" THEN AlignLocal(g, selected)
       ELSE IF gizmo_space = "Global" THEN AlignGlobal(g, selected)
       ELSE AlignScreen(g, selected, PickSources(rs))

update_gizmo_space ==
    /\ Ready("update_gizmo_space")
    /\ gizmo' = UpdateGizmoSpaceResult(app_assets, selection, gizmo, rigs)
    /\ pending' = pending \ {"update_gizmo_space"}
    /\ UNCHANGED <<rigs, input, frame, applied, selection, app_assets, enabled_systems,
                   ui, panicked>>

\* The frame ends: Bevy clears the events and the just_* sets.
EndFrame ==
    /\ ~panicked
    /\ frame = "update"
    /\ pending = {}
    /\ frame' = "idle"
    /\ input' = Cleared(input)
    /\ ui' = [ui EXCEPT !.click = "None"]
    /\ applied' = NoneApplied(rigs)
    /\ UNCHANGED <<rigs, pending, selection, app_assets, enabled_systems, gizmo, panicked>>

-----------------------------------------------------------------------------
(* What the plugin and the host set up *)

\* lines 66-69
InitialCameraData ==
    [transform_orientation |-> "Global", ui_show_transform_or_scale |-> "Transform"]

\* The panel's window starts open, nothing clicked, ui_system not yet invoked.
InitialUi == [collapsed |-> FALSE, click |-> "None", invoked |-> FALSE]

NoInput ==
    [window |-> TRUE,
     mouse |-> [pressed |-> FALSE, just_pressed |-> FALSE, just_released |-> FALSE],
     lshift |-> FALSE, rshift |-> FALSE, ev_motion |-> <<>>, ev_scroll |-> <<>>,
     period_released |-> FALSE]

\* n rigs as PanOrbitCamera::default() makes them, looking down -Z at the focus
DefaultRigs == UNION {[1..n -> {DefaultRig(p) : p \in Projections}] : n \in 0..MaxRigs}

\* The part of the state a specification of the engine leaves alone.
NoGizmo ==
    /\ selection = <<>>
    /\ app_assets = InitialCameraData
    /\ enabled_systems = [translate_arrows |-> TRUE, scale |-> TRUE, rotate |-> TRUE,
                          translate_planes |-> TRUE]
    /\ gizmo = [alignment_rotation |-> IDENTITY]
    /\ ui = InitialUi
    /\ panicked = FALSE

Idle ==
    /\ input = NoInput
    /\ frame = "idle"
    /\ pending = {}
    /\ applied = NoneApplied(rigs)

-----------------------------------------------------------------------------
(* SpecZoom: the user only turns the wheel *)

ZoomScrolls == {-500, 100, 1000}
ZoomFrames ==
    Frames(input.mouse.pressed, BOOLEAN, {FALSE}, Events({}, ZoomScrolls), {FALSE})

InitZoom ==
    /\ \E n \in 1..MaxRigs, r \in {MinRadius, DefaultRadius}, p \in Projections :
        rigs = [i \in 1..n |-> Rederive([DefaultRig(p) EXCEPT !.radius = r])]
    /\ Idle
    /\ NoGizmo

NextZoom ==
    \/ BeginFrame({"pan_orbit_camera"}, ZoomFrames, {selection}, {"None"})
    \/ pan_orbit_camera
    \/ EndFrame

SpecZoom == InitZoom /\ [][NextZoom]_vars

-----------------------------------------------------------------------------
(* SpecOrbit: the user presses, drags and releases the orbit button *)

OrbitMotions == {<<2, 0>>, <<-2, 0>>, <<0, 2>>}
OrbitFrames ==
    Frames(input.mouse.pressed, BOOLEAN, {FALSE}, Events(OrbitMotions, {}), {FALSE})

InitOrbit ==
    /\ rigs \in DefaultRigs
    /\ Idle
    /\ NoGizmo

NextOrbit ==
    \/ BeginFrame({"pan_orbit_camera"}, OrbitFrames, {selection}, {"None"})
    \/ pan_orbit_camera
    \/ EndFrame

SpecOrbit == InitOrbit /\ [][NextOrbit]_vars

-----------------------------------------------------------------------------
(* SpecFrame: one frame of the engine, from the poses a session reaches, under *)
(* every input                                                                 *)

FrameMotions == {<<2, 0>>, <<-2, 0>>, <<0, 2>>}
FrameScrolls == {-500, 1000}
FrameInputs ==
    UNION {Frames(was, BOOLEAN, BOOLEAN, Events(FrameMotions, FrameScrolls), {FALSE}) :
            was \in BOOLEAN}

\* upright, on its side (up.y = 0), upside down, and turned about both axes
FrameRotations ==
    {IDENTITY, from_rotation_x(1), from_rotation_x(2),
     MatMul(from_rotation_y(1), from_rotation_x(3))}

FramePoses ==
    {Rederive([DefaultRig(Perspective) EXCEPT
                  !.rotation = rot, !.upside_down = u, !.radius = r]) :
        rot \in FrameRotations, u \in BOOLEAN, r \in {MinRadius, DefaultRadius}}

FrameRigs ==
    UNION {{[i \in 1..n |-> [pose EXCEPT !.projection = ps[i]]] :
                pose \in FramePoses, ps \in [1..n -> Projections]} : n \in 0..MaxRigs}

InitFrame ==
    /\ rigs \in FrameRigs
    /\ input \in FrameInputs
    /\ frame = "update"
    /\ pending = {"pan_orbit_camera"}
    /\ applied = NoneApplied(rigs)
    /\ NoGizmo

NextFrame ==
    \/ pan_orbit_camera
    \/ EndFrame

SpecFrame == InitFrame /\ [][NextFrame]_vars

-----------------------------------------------------------------------------
(* SpecRecenter: the user picks objects and releases the Period key *)

\* the picking of a frame: any of the objects may be selected
Selections(sel) ==
    {[i \in 1..Len(sel) |-> [sel[i] EXCEPT !.selected = f[i]]] :
        f \in [1..Len(sel) -> BOOLEAN]}

Object(translation, rotation) ==
    [translation |-> translation, rotation |-> rotation, selected |-> FALSE]

\* in units of 0.05: the origin, (2, 0, 0) and (0, 0, 5), where the default rig
\* puts its camera
RecenterPositions == {ZERO, Vec3(40, 0, 0), Vec3(0, 0, DefaultRadius)}
RecenterObjects ==
    UNION {[1..n -> {Object(t, IDENTITY) : t \in RecenterPositions}] : n \in 0..MaxObjects}

\* rigs in the default orientation, about the origin or about (1, 0, 0)
RecenterRigs ==
    UNION {[1..n -> {Rederive([DefaultRig(Perspective) EXCEPT !.focus = f]) :
                        f \in {ZERO, Vec3(20, 0, 0)}}] : n \in 0..MaxRigs}

RecenterFrames == Frames(input.mouse.pressed, {TRUE}, {FALSE}, Events({}, {}), BOOLEAN)

InitRecenter ==
    /\ rigs \in RecenterRigs
    /\ selection \in RecenterObjects
    /\ app_assets = InitialCameraData
    /\ enabled_systems = [translate_arrows |-> TRUE, scale |-> TRUE, rotate |-> TRUE,
                          translate_planes |-> TRUE]
    /\ gizmo = [alignment_rotation |-> IDENTITY]
    /\ ui = InitialUi
    /\ panicked = FALSE
    /\ Idle

NextRecenter ==
    \/ BeginFrame({"pan_orbit_camera", "center_selection"}, RecenterFrames,
                  Selections(selection), {"None"})
    \/ pan_orbit_camera
    \/ center_selection
    \/ EndFrame

SpecRecenter == InitRecenter /\ [][NextRecenter]_vars

-----------------------------------------------------------------------------
(* SpecStale: one frame of the engine on the single rig that center_selection *)
(* has just recentred on one selected object                                  *)

StaleObjects ==
    {<<[Object(t, IDENTITY) EXCEPT !.selected = TRUE]>> : t \in RecenterPositions}

\* what center_selection leaves of a rig that was upright, sideways, upside down
\* or turned about both axes at the default distance from the origin
StalePoses ==
    {CenterSelectionResult(
        <<Rederive([DefaultRig(p) EXCEPT !.rotation = rot])>>, objs,
        [NoInput EXCEPT !.period_released = TRUE]).rigs[1] :
        p \in Projections, rot \in FrameRotations, objs \in StaleObjects}

StaleInputs ==
    UNION {Frames(was, {TRUE}, BOOLEAN, Events(FrameMotions, FrameScrolls), {FALSE}) :
            was \in BOOLEAN}

InitStale ==
    /\ \E pose \in StalePoses : rigs = <<pose>>
    /\ input \in StaleInputs
    /\ frame = "update"
    /\ pending = {"pan_orbit_camera"}
    /\ applied = NoneApplied(rigs)
    /\ NoGizmo

NextStale ==
    \/ pan_orbit_camera
    \/ EndFrame

SpecStale == InitStale /\ [][NextStale]_vars

-----------------------------------------------------------------------------
(* SpecGizmo: the user picks objects and clicks in the settings panel *)

\* object i is turned i quarter turns about X
GizmoObjects == [i \in 1..MaxObjects |-> Object(ZERO, from_rotation_x(i))]

\* n pick-source cameras, all in the same orientation
GizmoRigs ==
    UNION {[1..n -> {[Rederive([DefaultRig(Perspective) EXCEPT !.rotation = r])
                         EXCEPT !.pick_source = TRUE]}] :
              n \in 0..MaxRigs, r \in {IDENTITY, from_rotation_y(1)}}

\* what bevy_transform_gizmo enables at start is its own choice
GizmoFlags == [translate_arrows : BOOLEAN, scale : BOOLEAN, rotate : BOOLEAN,
               translate_planes : BOOLEAN]

InitGizmo ==
    /\ rigs \in GizmoRigs
    /\ selection = GizmoObjects
    /\ app_assets = InitialCameraData
    /\ enabled_systems \in GizmoFlags
    /\ gizmo = [alignment_rotation |-> IDENTITY]
    /\ ui = InitialUi
    /\ panicked = FALSE
    /\ Idle

NextGizmo ==
    \/ BeginFrame({"ui_system", "update_gizmo_space"}, {NoInput},
                  Selections(selection), Clicks)
    \/ ui_system
    \/ update_gizmo_space
    \/ EndFrame

SpecGizmo == InitGizmo /\ [][NextGizmo]_vars

-----------------------------------------------------------------------------
(* SpecSchedule: the four systems in one frame, in every order the two chains of *)
(* CameraPlugin::build allow; the user orbits the one camera, which is also the  *)
(* gizmo's pick source, and switches between Global and Screen                   *)

\* a quarter turn of yaw per event
ScheduleMotions == {<<2, 0>>}
ScheduleFrames ==
    Frames(input.mouse.pressed, {TRUE}, {FALSE}, Events(ScheduleMotions, {}), BOOLEAN)
ScheduleClicks == {"None", "Global", "Screen"}

InitSchedule ==
    /\ rigs = <<[DefaultRig(Perspective) EXCEPT !.pick_source = TRUE]>>
    /\ selection = [GizmoObjects EXCEPT ![1].selected = TRUE]
    /\ app_assets = InitialCameraData
    /\ enabled_systems = [translate_arrows |-> TRUE, scale |-> FALSE, rotate |-> TRUE,
                          translate_planes |-> TRUE]
    /\ gizmo = [alignment_rotation |-> IDENTITY]
    /\ ui = InitialUi
    /\ panicked = FALSE
    /\ Idle

NextSchedule ==
    \/ BeginFrame({"pan_orbit_camera", "center_selection", "ui_system",
                   "update_gizmo_space"},
                  ScheduleFrames, {selection}, ScheduleClicks)
    \/ pan_orbit_camera
    \/ center_selection
    \/ ui_system
    \/ update_gizmo_space
    \/ EndFrame

SpecSchedule == InitSchedule /\ [][NextSchedule]_vars

-----------------------------------------------------------------------------
(* Claims about pan_orbit_camera *)

\* the engine has run in the current frame, whose input is still in `input`
EngineRan == frame = "update" /\ "pan_orbit_camera" \notin pending
\* the step in which the engine runs
EngineStep == "pan_orbit_camera" \in pending /\ "pan_orbit_camera" \notin pending'

\* The trigger conditions as the specification words them.
MotionNonZero(inp) == SumVec2(inp.ev_motion) # <<0, 0>>
PanModifier(inp) == inp.lshift \/ inp.rshift
OrbitTrigger(inp) == inp.mouse.pressed /\ ~PanModifier(inp) /\ MotionNonZero(inp)
PanTrigger(inp) == inp.mouse.pressed /\ PanModifier(inp) /\ MotionNonZero(inp)
ZoomTrigger(inp) == SumY(inp.ev_scroll) # 0
FirstSatisfied(inp) ==
    IF OrbitTrigger(inp) THEN {"orbit"}
    ELSE IF PanTrigger(inp) THEN {"pan"}
    ELSE IF ZoomTrigger(inp) THEN {"zoom"}
    ELSE {}
Transition(inp) == inp.mouse.just_pressed \/ inp.mouse.just_released

\* C1 as stated: in any frame, each rig gets exactly the first satisfied of orbit,
\* pan and zoom, and nothing when no trigger holds. It fails in a frame whose
\* primary window is not found: the engine returns at line 184 and applies none.
C1_AnyFrame ==
    EngineRan => \A i \in 1..Len(rigs) : applied[i] = FirstSatisfied(input)

\* C1 amended: each rig gets at most one of orbit, pan and zoom in any frame, never
\* orbit and pan together, and in a frame whose primary window is found exactly
\* the first satisfied of orbit, pan, zoom.
C1_FirstSatisfied ==
    EngineRan =>
        \A i \in 1..Len(rigs) :
            /\ Cardinality(applied[i]) <= 1
            /\ ~({"orbit", "pan"} \subseteq applied[i])
            /\ input.window => applied[i] = FirstSatisfied(input)

\* Orbit and zoom are both triggered, two rigs, and each rig was orbited only.
C1_Witness ==
    /\ EngineRan
    /\ input.window
    /\ OrbitTrigger(input) /\ ZoomTrigger(input)
    /\ Len(rigs) = 2
    /\ \A i \in 1..Len(rigs) : applied[i] = {"orbit"}

\* C2: from a radius of at least 0.05, the radius of every rig is at least 0.05
\* after every frame of any sequence of zoom frames, whatever the scroll.
C2_RadiusFloor == \A i \in 1..Len(rigs) : rigs[i].radius >= MinRadius

\* A scroll spike that would make the radius negative left it at the floor.
C2_Witness ==
    /\ EngineRan
    /\ Len(rigs) >= 1
    /\ applied[1] = {"zoom"}
    /\ Scroll(input) >= 1000
    /\ rigs[1].radius = MinRadius

\* C3 as stated: upside_down changes only in a frame with a press or release of the
\* orbit button, and in every such frame it becomes "the rig's up vector has y <= 0".
\* It fails in a transition frame whose primary window is not found.
C3_EveryTransition ==
    [][\A i \in 1..Len(rigs) :
          /\ rigs'[i].upside_down # rigs[i].upside_down
                => (EngineStep /\ Transition(input))
          /\ (EngineStep /\ Transition(input))
                => rigs'[i].upside_down = (MulVec(rigs[i].rotation, Y)[2] <= 0)]_vars

\* C3 amended: upside_down changes only in a frame with a press or release of the
\* orbit button; in such a frame, if the primary window is found, it becomes
\* "the rig's up vector has y <= 0"; in every other frame it keeps its value.
C3_EdgeTriggered ==
    [][\A i \in 1..Len(rigs) :
          /\ rigs'[i].upside_down # rigs[i].upside_down
                => (EngineStep /\ Transition(input))
          /\ (EngineStep /\ Transition(input) /\ input.window)
                => rigs'[i].upside_down = (MulVec(rigs[i].rotation, Y)[2] <= 0)]_vars

\* The camera was orbited back upright in a frame without a transition and the
\* flag, set when it was upside down, is still set.
C3_Witness ==
    /\ EngineRan
    /\ input.window /\ ~Transition(input)
    /\ Len(rigs) >= 1
    /\ applied[1] = {"orbit"}
    /\ rigs[1].upside_down
    /\ MulVec(rigs[1].rotation, Y)[2] > 0

\* C10 as stated: what the engine does to a rig is what it would do to that rig
\* alone under the same input. It fails for a pan: line 254 scales the function's
\* `pan` in place, once more for every perspective rig the loop has passed.
C10_OwnStateOnly ==
    [][EngineStep =>
          \A i \in 1..Len(rigs) :
              rigs'[i] = PanOrbitCameraResult(<<rigs[i]>>, input).rigs[1]]_vars

-----------------------------------------------------------------------------
(* Claims about center_selection *)

RecenterRan == frame = "update" /\ "center_selection" \notin pending
RecenterStep == "center_selection" \in pending /\ "center_selection" \notin pending'

SelectedIndices == {i \in 1..Len(selection) : selection[i].selected}
\* the sum of coordinate k over the objects whose index is in S
RECURSIVE SumOf(_, _)
SumOf(S, k) ==
    IF S = {} THEN 0
    ELSE LET i == CHOOSE j \in S : TRUE
         IN selection[i].translation[k] + SumOf(S \ {i}, k)

\* C4: in a frame where the Period key is released and at least one object is
\* selected, center_selection sets the focus of the camera rig to the mean of the
\* translations of exactly the selected objects and the radius to the distance from
\* the camera's translation to that mean (both to within the model's unit).
C4_Centroid ==
    [][(RecenterStep /\ input.period_released /\ SelectedIndices # {} /\ Len(rigs) = 1)
          => LET n == Cardinality(SelectedIndices)
                 focus == rigs'[1].focus
                 radius == rigs'[1].radius
                 d2 == LengthSquared(VSub(rigs[1].translation, focus))
             IN /\ Len(rigs') = 1
                /\ \A k \in 1..3 : Abs(n * focus[k] - SumOf(SelectedIndices, k)) < n
                /\ radius >= 0
                /\ radius * radius <= d2
                /\ d2 < (radius + 1) * (radius + 1)]_vars

\* The example: (0,0,0) and (2,0,0) selected, the camera at (1,0,5); the focus is
\* (1,0,0) and the radius 5 after the recentre.
C4_Witness ==
    /\ RecenterRan
    /\ input.period_released
    /\ Len(selection) = 2
    /\ SelectedIndices = {1, 2}
    /\ {selection[1].translation, selection[2].translation} = {ZERO, Vec3(40, 0, 0)}
    /\ Len(rigs) = 1
    /\ rigs[1].translation = Vec3(20, 0, 100)
    /\ rigs[1].focus = Vec3(20, 0, 0)
    /\ rigs[1].radius = 100

-----------------------------------------------------------------------------
(* Claims about ui_system and update_gizmo_space *)

UiStep == "ui_system" \in pending /\ "ui_system" \notin pending'
CoordinatorRan ==
    /\ frame = "update"
    /\ ui.invoked
    /\ "update_gizmo_space" \notin pending
CoordinatorStep == "update_gizmo_space" \in pending /\ "update_gizmo_space" \notin pending'

\* C5 as stated: whenever the orientation mode is Global, the alignment is the
\* identity after update_gizmo_space has run, whatever it was before. It fails when
\* nothing is selected: line 313 is inside the loop over the first selected object.
C5_GlobalIdentity ==
    (CoordinatorRan /\ app_assets.transform_orientation = "Global")
        => gizmo.alignment_rotation = IDENTITY

\* C5 amended: whenever the orientation mode is Global and at least one object is
\* selected, the alignment is the identity after update_gizmo_space has run,
\* whatever the transforms of the selection and whatever it was before; with
\* nothing selected it keeps the value it had.
C5_GlobalIdentityIfSelected ==
    [][(CoordinatorStep /\ app_assets.transform_orientation = "Global")
          => gizmo'.alignment_rotation =
                IF AnySelected(selection) THEN IDENTITY ELSE gizmo.alignment_rotation]_vars

\* The mode was switched to Global in this frame with an object selected, and the
\* alignment is the identity.
C5_Witness ==
    /\ CoordinatorRan
    /\ ui.click = "Global"
    /\ app_assets.transform_orientation = "Global"
    /\ AnySelected(selection)
    /\ selection[1].selected /\ selection[1].rotation # IDENTITY
    /\ gizmo.alignment_rotation = IDENTITY

\* C6: once ui_system has been invoked, in every state the handle flags agree with
\* the handle mode it stores: Transform gives translate_arrows and not scale,
\* Scale gives scale and not translate_arrows, Neither gives neither.
C6_FlagsAgree ==
    ui.invoked =>
        /\ enabled_systems.translate_arrows
              = (app_assets.ui_show_transform_or_scale = "Transform")
        /\ enabled_systems.scale = (app_assets.ui_show_transform_or_scale = "Scale")

\* Scale was chosen in this frame: the scale handles are on, the arrows off.
C6_Witness ==
    /\ frame = "update" /\ "ui_system" \notin pending
    /\ ui.invoked
    /\ ui.click = "Scale"
    /\ app_assets.ui_show_transform_or_scale = "Scale"
    /\ enabled_systems.scale /\ ~enabled_systems.translate_arrows

\* C7: the rotate flag changes only when ui_system runs with a click on its own
\* checkbox, and likewise the translate_planes flag; a choice of the handle mode
\* changes neither.
C7_TogglesKept ==
    [][/\ enabled_systems'.rotate # enabled_systems.rotate
            => (UiStep /\ ui.click = "Rotate")
       /\ enabled_systems'.translate_planes # enabled_systems.translate_planes
            => (UiStep /\ ui.click = "Planes")]_vars

\* The handle mode was changed to Neither in this frame, and the rotate handles
\* are shown while the plane handles are hidden.
C7_Witness ==
    /\ frame = "update" /\ "ui_system" \notin pending
    /\ ui.invoked
    /\ ui.click = "Neither"
    /\ app_assets.ui_show_transform_or_scale = "Neither"
    /\ enabled_systems.rotate /\ ~enabled_systems.translate_planes

\* C8: when update_gizmo_space runs in Screen mode and the pick-source camera is
\* missing or not unique, the alignment keeps its value, selection or not.
C8_ScreenNoCamera ==
    [][(/\ CoordinatorStep
        /\ app_assets.transform_orientation = "Screen"
        /\ Len(PickSources(rigs)) # 1)
          => gizmo' = gizmo]_vars

\* Screen mode, two pick-source cameras, an object selected: the alignment is still
\* the one Local mode gave it.
C8_Witness ==
    /\ CoordinatorRan
    /\ app_assets.transform_orientation = "Screen"
    /\ Len(PickSources(rigs)) = 2
    /\ AnySelected(selection)
    /\ gizmo.alignment_rotation = from_rotation_x(1)

\* C9: with no object selected a run of update_gizmo_space leaves the alignment
\* unchanged in every orientation mode; with objects selected the new alignment is
\* what the first selected object alone gives.
C9_FirstSelectedOnly ==
    [][CoordinatorStep =>
          IF ~AnySelected(selection) THEN gizmo' = gizmo
          ELSE LET first == CHOOSE i \in SelectedIndices :
                               \A j \in SelectedIndices : i <= j
               IN gizmo' = UpdateGizmoSpaceResult(app_assets, <<selection[first]>>,
                                                  gizmo, rigs)]_vars

\* Local mode with two objects of different rotations selected: the alignment is
\* the rotation of the first.
C9_Witness ==
    /\ CoordinatorRan
    /\ app_assets.transform_orientation = "Local"
    /\ Cardinality(SelectedIndices) >= 2
    /\ selection[1].rotation # selection[2].rotation
    /\ gizmo.alignment_rotation = selection[1].rotation

-----------------------------------------------------------------------------
(* Claims about the frames in which a system has nothing to act on *)

\* C11: in a frame whose primary window is not found the engine changes nothing:
\* focus, radius, upside_down, orientation and position of every rig are after the
\* frame what they were before, whatever buttons, motion and scroll it carries.
C11_WindowlessNoop ==
    [][(EngineStep /\ ~input.window) => rigs' = rigs]_vars

\* No window, the orbit button just pressed and held, motion and scroll present,
\* two rigs: none was acted on.
C11_Witness ==
    /\ EngineRan
    /\ ~input.window
    /\ Transition(input)
    /\ MotionNonZero(input) /\ input.mouse.pressed /\ ZoomTrigger(input)
    /\ Len(rigs) = 2
    /\ \A i \in 1..Len(rigs) : applied[i] = {}

\* C12: center_selection changes the focus or the radius of a rig only in a frame
\* in which the Period key was released and at least one object is selected; with
\* nothing selected, or without the release, the rigs are unchanged and the system
\* returns without a panic, however many rigs there are.
C12_RecenterOnlyOnTrigger ==
    [][RecenterStep =>
          ((~input.period_released \/ ~AnySelected(selection))
              => (rigs' = rigs /\ ~panicked'))]_vars

\* The key was released with objects present and none selected, and two rigs: the
\* system has run, the rigs are as the default made them, nothing panicked.
C12_Witness ==
    /\ RecenterRan
    /\ input.period_released
    /\ Len(selection) >= 1 /\ ~AnySelected(selection)
    /\ Len(rigs) = 2
    /\ \A i \in 1..Len(rigs) : rigs[i].radius = DefaultRadius
    /\ ~panicked

\* C13 as stated: no frame aborts the host; in particular a release of the Period
\* key with an object selected and zero or several rigs completes. It fails:
\* camera.single_mut() of line 92 panics unless exactly one rig matches the query.
C13_NoAbort == ~panicked

-----------------------------------------------------------------------------
(* Claims about what one frame of pan_orbit_camera does to a rig *)

\* C14: in a frame where the orbit button is held, no pan key is held and the
\* motion events sum to zero or there are none, the orientation of every camera
\* after pan_orbit_camera is its orientation before.
C14_ZeroMotionKeepsOrientation ==
    [][(/\ EngineStep
        /\ input.mouse.pressed /\ ~PanModifier(input)
        /\ SumVec2(input.ev_motion) = <<0, 0>>)
          => \A i \in 1..Len(rigs) : rigs'[i].rotation = rigs[i].rotation]_vars

\* The button held, two motion events that cancel, the window found: the engine
\* has run and orbited no rig.
C14_Witness ==
    /\ EngineRan
    /\ input.window
    /\ input.mouse.pressed /\ ~PanModifier(input)
    /\ Len(input.ev_motion) = 2
    /\ SumVec2(input.ev_motion) = <<0, 0>>
    /\ Len(rigs) >= 1
    /\ \A i \in 1..Len(rigs) : "orbit" \notin applied[i]

InStep(rig) ==
    rig.translation = VAdd(rig.focus, MulVec(rig.rotation, Vec3(0, 0, rig.radius)))

\* C15: after the engine has applied orbit, pan or zoom to a rig in a frame, the
\* camera's position is focus + orientation applied to (0, 0, radius), with the
\* focus, radius and orientation the rig has at the end of that action; this also
\* when the position was out of step before the frame.
C15_PositionRederived ==
    EngineRan => \A i \in 1..Len(rigs) : applied[i] # {} => InStep(rigs[i])

\* A rig recentred on the object at (2, 0, 0), its position then out of step, has
\* been zoomed, and its position is where focus, orientation and radius put it.
C15_Witness ==
    /\ EngineRan
    /\ Len(rigs) = 1
    /\ applied[1] = {"zoom"}
    /\ rigs[1].focus = Vec3(40, 0, 0)
    /\ rigs[1].translation # Vec3(0, 0, DefaultRadius)
    /\ InStep(rigs[1])

\* InStep to within one unit in each coordinate, the radius being rounded
NearStep(rig) ==
    LET p == VAdd(rig.focus, MulVec(rig.rotation, Vec3(0, 0, rig.radius)))
    IN \A k \in 1..3 : Abs(rig.translation[k] - p[k]) <= 1

\* C16 as stated: position = focus + orientation applied to (0, 0, radius) holds in
\* every state of a session that starts with it, recentres included. It fails:
\* center_selection writes focus and radius (lines 93-94) and leaves the position
\* and the orientation, so the relation breaks unless the centroid lies straight
\* ahead of the camera.
C16_PositionInStep == \A i \in 1..Len(rigs) : NearStep(rigs[i])

\* C17 as stated: no step of a session that mixes zoom, orbit, pan and recentre
\* takes the radius of a rig from at least 0.05 to below 0.05, so from the default
\* rig the radius is at least 0.05 in every state. It fails: line 93 assigns the
\* distance to the centroid as it is, and line 266 clamps the zoom only.
C17_RadiusFloorKept ==
    [][\A i \in 1..Len(rigs) :
          rigs[i].radius >= MinRadius => rigs'[i].radius >= MinRadius]_vars

-----------------------------------------------------------------------------
(* Claims about the order of the systems in a frame *)

\* C18: in every frame ui_system has run and stored the mode before
\* update_gizmo_space reads it: an orientation mode chosen in the open panel in a
\* frame is the mode from which the alignment is computed in that frame.
C18_PanelBeforeCoordinator ==
    [][CoordinatorStep =>
          /\ "ui_system" \notin pending
          /\ (~ui.collapsed /\ ui.click \in GizmoSpaces)
                => gizmo' = UpdateGizmoSpaceResult(
                                [app_assets EXCEPT !.transform_orientation = ui.click],
                                selection, gizmo, rigs)]_vars

\* Local was chosen in this frame with the first object selected, and the alignment
\* is already that object's rotation.
C18_Witness ==
    /\ CoordinatorRan
    /\ ~ui.collapsed
    /\ ui.click = "Local"
    /\ selection[1].selected
    /\ selection[1].rotation # IDENTITY
    /\ gizmo.alignment_rotation = selection[1].rotation

\* C19 as stated: the systems run in the order pan_orbit_camera, center_selection,
\* update_gizmo_space in every schedule, so at the end of a frame in Screen mode the
\* alignment is the one of the pick-source camera as that frame's orbit left it.
\* It fails: build() orders pan_orbit_camera before center_selection and ui_system
\* before update_gizmo_space, and nothing orders the two chains.
C19_CoordinatorSeesOrbit ==
    (/\ frame = "update" /\ pending = {}
     /\ app_assets.transform_orientation = "Screen"
     /\ Len(PickSources(rigs)) = 1
     /\ AnySelected(selection))
        => gizmo.alignment_rotation = ScreenRotation(PickSources(rigs)[1])

-----------------------------------------------------------------------------
(* Claims about the parts of a rig a frame of pan_orbit_camera writes *)

\* C20: besides the rederived position, an orbit frame leaves focus and radius of
\* every rig unchanged, a pan frame leaves orientation and radius unchanged, a zoom
\* frame leaves orientation and focus unchanged, and a frame with no action and no
\* press or release of the orbit button leaves the whole rig unchanged.
C20_OwnPartOnly ==
    [][EngineStep =>
          \A i \in 1..Len(rigs) :
              LET action == FirstSatisfied(input) IN
              /\ action = {"orbit"}
                    => (rigs'[i].focus = rigs[i].focus /\ rigs'[i].radius = rigs[i].radius)
              /\ action = {"pan"}
                    => (rigs'[i].rotation = rigs[i].rotation
                        /\ rigs'[i].radius = rigs[i].radius)
              /\ action = {"zoom"}
                    => (rigs'[i].rotation = rigs[i].rotation
                        /\ rigs'[i].focus = rigs[i].focus)
              /\ (action = {} /\ ~Transition(input)) => rigs'[i] = rigs[i]]_vars

\* A pan frame has run on two rigs at the default distance: the focus of the first
\* has moved, its radius and orientation are an upright default rig's.
C20_Witness ==
    /\ EngineRan
    /\ input.window
    /\ FirstSatisfied(input) = {"pan"}
    /\ Len(rigs) = 2
    /\ applied[1] = {"pan"}
    /\ rigs[1].focus # ZERO
    /\ rigs[1].radius = DefaultRadius
    /\ rigs[1].rotation = IDENTITY

=============================================================================
